---------------------------- MODULE Spec2Model ----------------------------
(***************************************************************************)
(* Lineup reconstruction of pvd_Sofascore.py: the batch loop of            *)
(* get_lineups_from_events, its formation parsing, the per-player          *)
(* determine_position resolver and the pandas left merge with the          *)
(* average-position samples; and, each under a specification of its own,   *)
(* get_results_from_events, get_players_from_teams (the three providers)   *)
(* and the round loop of get_events_from_league.                           *)
(*                                                                         *)
(* Conventions.  A Python str that the code splits is a sequence of        *)
(* one-character strings.  A lateral slot f'{k}/{n}' is the pair <<k, n>>  *)
(* and a None slot is <<>>.  None for line/pos is the value None below.    *)
(* A dict is a record; a missing key is a field outside its DOMAIN.        *)
(***************************************************************************)
EXTENDS Integers, Sequences, FiniteSets, TLC

VARIABLES
    events,          \* the input list (one descriptor per event)
    i,               \* index of the for loop over events (0-based)
    pc,              \* position inside get_lineups_from_events
    dfs,             \* list of per-event merged tables
    printed,         \* indices of events whose except branch printed an error
    emitted,         \* history: indices of events whose table was appended to dfs
    fetched,         \* indices of events whose lineups were requested
    home_formation, away_formation,
    home_shape, away_shape,   \* home_def, home_mid_0, ... / away_def, ...
    j, k,            \* roster loop indices (0-based)
    home, away, home_avg, away_avg,
    avg_locals,      \* the locals avg_id, averageX, averageY, pointsCount
    order, substitute, line, lat, pos,   \* locals of the roster loops
    lineups_df,      \* the returned table
    results_df,      \* get_results_from_events: the returned table
    teams, players_dic, repeated,   \* get_players_from_teams: input list and its two lists
    provider,        \* which module's get_players_from_teams runs
    driver,          \* get_events_from_league: the pages the browser shows, one per round
    round_number, selected_round, events_dic,   \* locals of get_events_from_league
    stop             \* history: the way the round loop was left

\* the variables of one function that the other functions leave alone
lineup_vars == <<printed, fetched, home_formation, away_formation, home_shape, away_shape, k, home, away, home_avg, away_avg, avg_locals, order, substitute, line, lat, pos, lineups_df>>

results_vars == <<results_df>>

players_vars == <<teams, players_dic, repeated, provider>>

rounds_vars == <<driver, round_number, selected_round, events_dic, stop>>

vars == <<events, i, pc, dfs, emitted, j, lineup_vars, results_vars, players_vars, rounds_vars>>

-----------------------------------------------------------------------------
(* Bounds of the model *)

MaxEvents == 2     \* longest input list
MaxCount == 3      \* largest group count handed directly to determine_position
MaxOrder == 13     \* largest order handed directly to determine_position
MaxRoster == 13    \* length of the full home roster
MaxScore == 2      \* highest score of a side in get_results_from_events
MaxTeams == 2      \* longest list of teams in get_players_from_teams
MaxRounds == 2     \* most round pages the browser can show in get_events_from_league

-----------------------------------------------------------------------------
(* Values *)

None == "None"
NoneLat == <<>>
NaN == -1          \* the null a left merge leaves in averageX/averageY/pointsCount
Unset == <<>>

Digits == <<"0", "1", "2", "3", "4", "5", "6", "7", "8", "9">>

IsDigit(c) == \E d \in 1..10 : Digits[d] = c

DigitVal(c) == (CHOOSE d \in 1..10 : Digits[d] = c) - 1

\* str.split(sep): the pieces between the occurrences of sep, empty pieces kept
RECURSIVE split(_, _)
split(s, sep) ==
    IF \A p \in 1..Len(s) : s[p] # sep
    THEN <<s>>
    ELSE LET p == CHOOSE q \in 1..Len(s) :
                      s[q] = sep /\ \A r \in 1..(q - 1) : s[r] # sep
         IN  <<SubSeq(s, 1, p - 1)>> \o split(SubSeq(s, p + 1, Len(s)), sep)

\* int(str) raises ValueError on an empty or non-numeric piece
int_raises(t) == Len(t) = 0 \/ \E p \in 1..Len(t) : ~IsDigit(t[p])

RECURSIVE int(_)
int(t) ==
    IF Len(t) = 0 THEN 0
    ELSE 10 * int(SubSeq(t, 1, Len(t) - 1)) + DigitVal(t[Len(t)])


-----------------------------------------------------------------------------
(* Formation parsing, lines 342-368 *)

\* lines 343-354 raise: int() of a piece it reads, or groups[1] of a 1-piece list
home_formation_raises(formation) ==
    LET home_groups_formation == split(formation, "-")
        n == Len(home_groups_formation)
    IN  \/ int_raises(home_groups_formation[1])
        \/ int_raises(home_groups_formation[n])
        \/ IF n = 4
           THEN \/ int_raises(home_groups_formation[2])
                \/ int_raises(home_groups_formation[3])
           ELSE \/ n < 2
                \/ int_raises(home_groups_formation[2])

\* faulty variant: a 4-group formation fills the midfield groups in order
home_counts_in_order(formation) ==
    LET home_groups_formation == split(formation, "-")
        n == Len(home_groups_formation)
    IN  IF n = 4
        THEN [def   |-> int(home_groups_formation[1]),
              mid_0 |-> int(home_groups_formation[2]),
              mid_1 |-> int(home_groups_formation[3]),
              mid_2 |-> 0,
              ata   |-> int(home_groups_formation[n])]
        ELSE [def   |-> int(home_groups_formation[1]),
              mid_0 |-> 0,
              mid_1 |-> int(home_groups_formation[2]),
              mid_2 |-> 0,
              ata   |-> int(home_groups_formation[n])]

\* faulty variant: a 3-group formation fills the first midfield group
home_counts_first(formation) ==
    LET home_groups_formation == split(formation, "-")
        n == Len(home_groups_formation)
    IN  IF n = 4
        THEN [def   |-> int(home_groups_formation[1]),
              mid_0 |-> int(home_groups_formation[2]),
              mid_1 |-> 0,
              mid_2 |-> int(home_groups_formation[3]),
              ata   |-> int(home_groups_formation[n])]
        ELSE [def   |-> int(home_groups_formation[1]),
              mid_0 |-> int(home_groups_formation[2]),
              mid_1 |-> 0,
              mid_2 |-> 0,
              ata   |-> int(home_groups_formation[n])]

\* lines 343-354: home_def, home_mid_0, home_mid_1, home_mid_2, home_ata
home_counts(formation) ==
    LET home_groups_formation == split(formation, "-")
        n == Len(home_groups_formation)
    IN  IF n = 4
        THEN [def   |-> int(home_groups_formation[1]),
              mid_0 |-> int(home_groups_formation[2]),
              mid_1 |-> 0,
              mid_2 |-> int(home_groups_formation[3]),
              ata   |-> int(home_groups_formation[n])]
        ELSE [def   |-> int(home_groups_formation[1]),
              mid_0 |-> 0,
              mid_1 |-> int(home_groups_formation[2]),
              mid_2 |-> 0,
              ata   |-> int(home_groups_formation[n])]

\* lines 357-368 raise
away_formation_raises(formation) ==
    LET away_groups_formation == split(formation, "-")
        n == Len(away_groups_formation)
    IN  \/ int_raises(away_groups_formation[1])
        \/ int_raises(away_groups_formation[n])
        \/ IF n = 4
           THEN \/ int_raises(away_groups_formation[2])
                \/ int_raises(away_groups_formation[3])
           ELSE \/ n < 2
                \/ int_raises(away_groups_formation[2])

\* faulty variant: the away side fills the midfield groups of a 4-group formation in order
away_counts_in_order(formation) ==
    LET away_groups_formation == split(formation, "-")
        n == Len(away_groups_formation)
    IN  IF n = 4
        THEN [def   |-> int(away_groups_formation[1]),
              mid_0 |-> int(away_groups_formation[2]),
              mid_1 |-> int(away_groups_formation[3]),
              mid_2 |-> 0,
              ata   |-> int(away_groups_formation[n])]
        ELSE [def   |-> int(away_groups_formation[1]),
              mid_0 |-> 0,
              mid_1 |-> int(away_groups_formation[2]),
              mid_2 |-> 0,
              ata   |-> int(away_groups_formation[n])]

\* lines 357-368: away_def, away_mid_0, away_mid_1, away_mid_2, away_ata
away_counts(formation) ==
    LET away_groups_formation == split(formation, "-")
        n == Len(away_groups_formation)
    IN  IF n = 4
        THEN [def   |-> int(away_groups_formation[1]),
              mid_0 |-> int(away_groups_formation[2]),
              mid_1 |-> 0,
              mid_2 |-> int(away_groups_formation[3]),
              ata   |-> int(away_groups_formation[n])]
        ELSE [def   |-> int(away_groups_formation[1]),
              mid_0 |-> 0,
              mid_1 |-> int(away_groups_formation[2]),
              mid_2 |-> 0,
              ata   |-> int(away_groups_formation[n])]

-----------------------------------------------------------------------------
(* determine_position, lines 548-603 *)

\* faulty variant: the goalkeeper's order taken 0-based
home_por_zero == 1 - 1

\* line 564
home_por == 1

\* faulty variant: the bench test one order late
bench_position_late(order_, substitute_) ==
    IF order_ > 12 /\ substitute_
    THEN <<None, NoneLat, "SUS">>
    ELSE IF order_ > 12 /\ ~substitute_
    THEN <<None, NoneLat, "RES">>
    ELSE <<None, NoneLat, None>>

\* faulty variant: the bench test one order early
bench_position_early(order_, substitute_) ==
    IF order_ >= 11 /\ substitute_
    THEN <<None, NoneLat, "SUS">>
    ELSE IF order_ >= 11 /\ ~substitute_
    THEN <<None, NoneLat, "RES">>
    ELSE <<None, NoneLat, None>>

\* faulty variant: no test of the order, every entry outside the groups is bench
bench_position_always(order_, substitute_) ==
    IF substitute_
    THEN <<None, NoneLat, "SUS">>
    ELSE <<None, NoneLat, "RES">>

\* lines 590-601: the branches left when the order is in no group
bench_position(order_, substitute_) ==
    IF order_ > 11 /\ substitute_
    THEN <<None, NoneLat, "SUS">>
    ELSE IF order_ > 11 /\ ~substitute_
    THEN <<None, NoneLat, "RES">>
    ELSE <<None, NoneLat, None>>

\* faulty variant: the boundary of the second midfield group one order too far
determine_position_closed(order_, def_count, mid_0_count, mid_1_count, mid_2_count, ata_count, substitute_) ==
    IF order_ = home_por
    THEN <<"por", <<1, 1>>, "POR">>
    ELSE IF order_ <= home_por + def_count
    THEN <<"def", <<order_ - home_por, def_count>>, "DEF">>
    ELSE IF order_ <= home_por + def_count + mid_0_count
    THEN <<"mid_0", <<order_ - home_por - def_count, mid_0_count>>, "MED">>
    ELSE IF order_ <= home_por + def_count + mid_0_count + mid_1_count + 1
    THEN <<"mid_1", <<order_ - home_por - def_count - mid_0_count,
                      mid_1_count>>, "MED">>
    ELSE IF order_ <= home_por + def_count + mid_0_count + mid_1_count
                      + mid_2_count
    THEN <<"mid_2", <<order_ - home_por - def_count - mid_0_count
                      - mid_1_count, mid_2_count>>, "MED">>
    ELSE IF order_ <= home_por + def_count + mid_0_count + mid_1_count
                      + mid_2_count + ata_count
    THEN <<"ata", <<order_ - home_por - def_count - mid_0_count
                    - mid_1_count - mid_2_count, ata_count>>, "ATA">>
    ELSE bench_position(order_, substitute_)

\* faulty variant: the boundary of the defense exclusive on the high end
determine_position_strict(order_, def_count, mid_0_count, mid_1_count, mid_2_count, ata_count, substitute_) ==
    IF order_ = home_por
    THEN <<"por", <<1, 1>>, "POR">>
    ELSE IF order_ < home_por + def_count
    THEN <<"def", <<order_ - home_por, def_count>>, "DEF">>
    ELSE IF order_ <= home_por + def_count + mid_0_count
    THEN <<"mid_0", <<order_ - home_por - def_count, mid_0_count>>, "MED">>
    ELSE IF order_ <= home_por + def_count + mid_0_count + mid_1_count
    THEN <<"mid_1", <<order_ - home_por - def_count - mid_0_count,
                      mid_1_count>>, "MED">>
    ELSE IF order_ <= home_por + def_count + mid_0_count + mid_1_count
                      + mid_2_count
    THEN <<"mid_2", <<order_ - home_por - def_count - mid_0_count
                      - mid_1_count, mid_2_count>>, "MED">>
    ELSE IF order_ <= home_por + def_count + mid_0_count + mid_1_count
                      + mid_2_count + ata_count
    THEN <<"ata", <<order_ - home_por - def_count - mid_0_count
                    - mid_1_count - mid_2_count, ata_count>>, "ATA">>
    ELSE bench_position(order_, substitute_)

\* faulty variant: the attack slot counted from the end of the second midfield group
determine_position_absolute(order_, def_count, mid_0_count, mid_1_count, mid_2_count, ata_count, substitute_) ==
    IF order_ = home_por
    THEN <<"por", <<1, 1>>, "POR">>
    ELSE IF order_ <= home_por + def_count
    THEN <<"def", <<order_ - home_por, def_count>>, "DEF">>
    ELSE IF order_ <= home_por + def_count + mid_0_count
    THEN <<"mid_0", <<order_ - home_por - def_count, mid_0_count>>, "MED">>
    ELSE IF order_ <= home_por + def_count + mid_0_count + mid_1_count
    THEN <<"mid_1", <<order_ - home_por - def_count - mid_0_count,
                      mid_1_count>>, "MED">>
    ELSE IF order_ <= home_por + def_count + mid_0_count + mid_1_count
                      + mid_2_count
    THEN <<"mid_2", <<order_ - home_por - def_count - mid_0_count
                      - mid_1_count, mid_2_count>>, "MED">>
    ELSE IF order_ <= home_por + def_count + mid_0_count + mid_1_count
                      + mid_2_count + ata_count
    THEN <<"ata", <<order_ - home_por - def_count - mid_0_count
                    - mid_1_count, ata_count>>, "ATA">>
    ELSE bench_position(order_, substitute_)

\* faulty variant: the bench classification tested before the groups
determine_position_bench_first(order_, def_count, mid_0_count, mid_1_count, mid_2_count, ata_count, substitute_) ==
    IF order_ = home_por
    THEN <<"por", <<1, 1>>, "POR">>
    ELSE IF order_ > 11
    THEN bench_position(order_, substitute_)
    ELSE IF order_ <= home_por + def_count
    THEN <<"def", <<order_ - home_por, def_count>>, "DEF">>
    ELSE IF order_ <= home_por + def_count + mid_0_count
    THEN <<"mid_0", <<order_ - home_por - def_count, mid_0_count>>, "MED">>
    ELSE IF order_ <= home_por + def_count + mid_0_count + mid_1_count
    THEN <<"mid_1", <<order_ - home_por - def_count - mid_0_count,
                      mid_1_count>>, "MED">>
    ELSE IF order_ <= home_por + def_count + mid_0_count + mid_1_count
                      + mid_2_count
    THEN <<"mid_2", <<order_ - home_por - def_count - mid_0_count
                      - mid_1_count, mid_2_count>>, "MED">>
    ELSE IF order_ <= home_por + def_count + mid_0_count + mid_1_count
                      + mid_2_count + ata_count
    THEN <<"ata", <<order_ - home_por - def_count - mid_0_count
                    - mid_1_count - mid_2_count, ata_count>>, "ATA">>
    ELSE bench_position(order_, substitute_)

\* lines 564-603; returns <<line, lat, pos>>
determine_position(order_, def_count, mid_0_count, mid_1_count, mid_2_count, ata_count, substitute_) ==
    IF order_ = home_por
    THEN <<"por", <<1, 1>>, "POR">>
    ELSE IF order_ <= home_por + def_count
    THEN <<"def", <<order_ - home_por, def_count>>, "DEF">>
    ELSE IF order_ <= home_por + def_count + mid_0_count
    THEN <<"mid_0", <<order_ - home_por - def_count, mid_0_count>>, "MED">>
    ELSE IF order_ <= home_por + def_count + mid_0_count + mid_1_count
    THEN <<"mid_1", <<order_ - home_por - def_count - mid_0_count,
                      mid_1_count>>, "MED">>
    ELSE IF order_ <= home_por + def_count + mid_0_count + mid_1_count
                      + mid_2_count
    THEN <<"mid_2", <<order_ - home_por - def_count - mid_0_count
                      - mid_1_count, mid_2_count>>, "MED">>
    ELSE IF order_ <= home_por + def_count + mid_0_count + mid_1_count
                      + mid_2_count + ata_count
    THEN <<"ata", <<order_ - home_por - def_count - mid_0_count
                    - mid_1_count - mid_2_count, ata_count>>, "ATA">>
    ELSE bench_position(order_, substitute_)

-----------------------------------------------------------------------------
(* The data source: what get_event_data, get_lineups and                   *)
(* get_average_positions (lines 649-694) answer for an event descriptor    *)
(*   [status, fetch, hf, af, hn, an, hm, am, hk, ak]                       *)
(* status: data['event']['status']['type'];  fetch: the request that       *)
(* raises ("event", "lineups", "average"), "noformation" for a lineups     *)
(* answer without the 'formation' key, "ok" otherwise;  hf/af: formation   *)
(* strings;  hn/an: roster lengths;  hm/am: sample list lengths;  hk/ak:   *)
(* how the sample list is keyed.                                           *)

F433 == <<"4", "-", "3", "-", "3">>
F4231 == <<"4", "-", "2", "-", "3", "-", "1">>
F44 == <<"4", "-", "4">>
F31411 == <<"3", "-", "1", "-", "4", "-", "1", "-", "1">>
F4 == <<"4">>
F4_33 == <<"4", "-", "-", "3", "-", "3">>
F4x3 == <<"4", "-", "x", "-", "3">>
F4042 == <<"4", "-", "0", "-", "4", "-", "2">>
F460 == <<"4", "-", "6", "-", "0">>

BaseEvent == [status |-> "finished", fetch |-> "ok", hf |-> F433, af |-> F4231, hn |-> MaxRoster, an |-> 12, hm |-> MaxRoster, am |-> 12, hk |-> "aligned", ak |-> "aligned"]

EventInputs ==
    {BaseEvent}
    \cup {[BaseEvent EXCEPT !.hf = f] : f \in {F44, F4x3, F4042}}
    \cup {[BaseEvent EXCEPT !.af = F4x3]}
    \cup {[BaseEvent EXCEPT !.hm = m] : m \in {0, MaxRoster - 1}}
    \cup {[BaseEvent EXCEPT !.am = m] : m \in {0, 11}}
    \cup {[BaseEvent EXCEPT !.hn = 11, !.hm = 11]}
    \cup {[BaseEvent EXCEPT !.an = 14, !.am = 14]}
    \cup {[BaseEvent EXCEPT !.hk = "reversed"], [BaseEvent EXCEPT !.ak = "foreign"]}
    \cup {[BaseEvent EXCEPT !.status = "notstarted"]}
    \cup {[BaseEvent EXCEPT !.fetch = x] : x \in {"event", "lineups", "average", "noformation"}}

HomeId(idx) == idx
AwayId(idx) == 100 + idx

\* one entry of lineups[side]['players']; a bench entry that did not play
\* carries no 'statistics', the goalkeeper entry no 'position'
\* (every bench entry is flagged substitute but player 13, an unused reserve)
RosterEntry(pid, idx) ==
    LET core == [player |-> [name |-> pid, id |-> pid], shirtNumber |-> idx, substitute |-> (idx > 11 /\ pid # 13)]
        withPos == IF idx = 1 THEN core ELSE core @@ [position |-> "F"]
    IN  IF idx > 11 THEN withPos ELSE withPos @@ [statistics |-> [minutesPlayed |-> 90]]

HomePlayers(e) == [idx \in 1..e.hn |-> RosterEntry(HomeId(idx), idx)]
AwayPlayers(e) == [idx \in 1..e.an |-> RosterEntry(AwayId(idx), idx)]

SampleId(kind, first, n, m) ==
    IF kind = "aligned" THEN first + m
    ELSE IF kind = "reversed" THEN first + n + 1 - m
    ELSE 900 + first + m

Sample(pid, m) == [player |-> [id |-> pid], averageX |-> 2 * pid, averageY |-> 2 * pid + 1, pointsCount |-> m]

HomeAverage(e) == [m \in 1..e.hm |-> Sample(SampleId(e.hk, 0, e.hn, m), m)]
AwayAverage(e) == [m \in 1..e.am |-> Sample(SampleId(e.ak, 100, e.an, m), m)]

-----------------------------------------------------------------------------
(* get_lineups_from_events, lines 310-462 *)

Get(d, key, default) == IF key \in DOMAIN d THEN d[key] ELSE default

\* lines 378-384 / 402-408 and 393-397 / 417-421: the list appended to home / away
PlayerRow(player, order_, shape) ==
    LET substitute_ == player.substitute
        r == determine_position(order_, shape.def, shape.mid_0, shape.mid_1, shape.mid_2, shape.ata, substitute_)
    IN  [player |-> player.player.name,
         id |-> player.player.id,
         jersey |-> player.shirtNumber,
         position |-> Get(player, "position", ""),
         substitute |-> substitute_,
         minutes |-> Get(Get(player, "statistics", <<>>), "minutesPlayed", 0),
         order |-> order_, line |-> r[1], lat |-> r[2], pos |-> r[3]]

\* faulty variant: the last sample of a list is never read
ReadSample_short(average, idx, locals) ==
    IF idx + 1 < Len(average)
    THEN [avg_id |-> average[idx + 1].player.id,
          averageX |-> average[idx + 1].averageX,
          averageY |-> average[idx + 1].averageY,
          pointsCount |-> average[idx + 1].pointsCount]
    ELSE locals

\* lines 386-391 / 410-415: the sample at the loop index, when there is one,
\* rebinds the four locals; otherwise they keep what they held
ReadSample(average, idx, locals) ==
    IF idx < Len(average)
    THEN [avg_id |-> average[idx + 1].player.id,
          averageX |-> average[idx + 1].averageX,
          averageY |-> average[idx + 1].averageY,
          pointsCount |-> average[idx + 1].pointsCount]
    ELSE locals

\* lines 398 / 422: the list appended to home_avg / away_avg
\* (the column avg_id is renamed id at line 445)
AvgRow(locals) == [id |-> locals.avg_id, averageX |-> locals.averageX, averageY |-> locals.averageY, pointsCount |-> locals.pointsCount]

\* faulty variant: the midfield column holds the second midfield group alone
TeamFrame_mid_1(rows, local, team, formation, shape) ==
    [r \in 1..Len(rows) |->
        rows[r] @@ [local |-> local, team |-> team, formation |-> formation,
                    defense |-> shape.def,
                    midfield |-> shape.mid_1,
                    attack |-> shape.ata]]

\* lines 425-439: the per-side frame with its constant columns
TeamFrame(rows, local, team, formation, shape) ==
    [r \in 1..Len(rows) |->
        rows[r] @@ [local |-> local, team |-> team, formation |-> formation,
                    defense |-> shape.def,
                    midfield |-> shape.mid_0 + shape.mid_1 + shape.mid_2,
                    attack |-> shape.ata]]

\* create_team_df, lines 606-646: the helper that builds one side's frame
\* from the roster alone (no caller in the module)
create_team_df(players, formation, def_count, mid_0_count, mid_1_count, mid_2_count, ata_count, team_name, is_home) ==
    [jj \in 1..Len(players) |->
        LET player == players[jj]
            substitute_ == player.substitute
            order_ == (jj - 1) + 1
            r == determine_position(order_, def_count, mid_0_count, mid_1_count, mid_2_count, ata_count, substitute_)
        IN  [player |-> player.player.name,
             id |-> player.player.id,
             jersey |-> player.shirtNumber,
             position |-> Get(player, "position", ""),
             substitute |-> substitute_,
             minutes |-> Get(Get(player, "statistics", <<>>), "minutesPlayed", 0),
             order |-> order_, line |-> r[1], lat |-> r[2], pos |-> r[3],
             team |-> team_name,
             formation |-> formation,
             defense |-> def_count,
             midfield |-> mid_0_count + mid_1_count + mid_2_count,
             attack |-> ata_count,
             local |-> IF is_home THEN "Home" ELSE "Away"]]

\* pd.merge(df, right, on='id', how='left'), line 449: every left row, in
\* order, once per right row with its id (in right order), or once with
\* nulls when no right row has its id
RECURSIVE merge_left(_, _)
merge_left(df, right) ==
    IF df = <<>> THEN <<>>
    ELSE LET row == Head(df)
             Same(a) == a.id = row.id
             hits == SelectSeq(right, Same)
             out == IF hits = <<>>
                    THEN <<row @@ [averageX |-> NaN, averageY |-> NaN, pointsCount |-> NaN]>>
                    ELSE [h \in 1..Len(hits) |->
                            row @@ [averageX |-> hits[h].averageX,
                                    averageY |-> hits[h].averageY,
                                    pointsCount |-> hits[h].pointsCount]]
         IN  out \o merge_left(Tail(df), right)

\* faulty variant: each table put in front of the ones before it
RECURSIVE concat_front(_)
concat_front(frames) == IF frames = <<>> THEN <<>> ELSE concat_front(Tail(frames)) \o Head(frames)

\* pd.concat(dfs, ignore_index=True), line 459
RECURSIVE concat(_)
concat(frames) == IF frames = <<>> THEN <<>> ELSE Head(frames) \o concat(Tail(frames))

Event == events[i + 1]

\* faulty variant: the except branch leaves the loop
Except_break ==
    /\ printed' = Append(printed, i)
    /\ i' = Len(events)
    /\ pc' = "loop"

\* lines 454-455: the except branch prints and the for loop goes on
Except ==
    /\ printed' = Append(printed, i)
    /\ i' = i + 1
    /\ pc' = "loop"

\* None for selected_round (a text is a sequence of characters)
NoRound == <<"None">>

\* the variables of the other functions while one function runs
OthersIdle(own) ==
    /\ "results" \in own \/ results_df = <<>>
    /\ "players" \in own \/ (teams = <<>> /\ players_dic = <<>> /\ repeated = <<>> /\ provider = "none")
    /\ "rounds" \in own \/ (driver = <<>> /\ round_number = None /\ selected_round = NoRound /\ events_dic = <<>> /\ stop = "none")

Init ==
    /\ events \in UNION {[1..n -> EventInputs] : n \in 0..MaxEvents}
    /\ i = 0
    /\ pc = "loop"
    /\ dfs = <<>>
    /\ printed = <<>>
    /\ emitted = <<>>
    /\ fetched = {}
    /\ home_formation = Unset /\ away_formation = Unset
    /\ home_shape = Unset /\ away_shape = Unset
    /\ j = 0 /\ k = 0
    /\ home = <<>> /\ away = <<>> /\ home_avg = <<>> /\ away_avg = <<>>
    /\ avg_locals = <<>>
    /\ order = 0 /\ substitute = FALSE
    /\ line = None /\ lat = NoneLat /\ pos = None
    /\ lineups_df = <<>>
    /\ OthersIdle({})

\* faulty variant: the status of the event is not tested
GetEventData_any ==
    /\ pc = "loop" /\ i < Len(events)
    /\ IF Event.fetch = "event"
       THEN Except
       ELSE /\ printed' = printed
            /\ pc' = "lineups" /\ i' = i
    /\ UNCHANGED <<events, dfs, emitted, fetched, home_formation, away_formation, home_shape, away_shape, j, k, home, away, home_avg, away_avg, avg_locals, order, substitute, line, lat, pos, lineups_df>>
    /\ UNCHANGED <<results_vars, players_vars, rounds_vars>>

\* lines 323-333: next event, its data and its status
GetEventData ==
    /\ pc = "loop" /\ i < Len(events)
    /\ IF Event.fetch = "event"
       THEN Except
       ELSE /\ printed' = printed
            /\ IF Event.status = "finished"
               THEN pc' = "lineups" /\ i' = i
               ELSE pc' = "loop" /\ i' = i + 1
    /\ UNCHANGED <<events, dfs, emitted, fetched, home_formation, away_formation, home_shape, away_shape, j, k, home, away, home_avg, away_avg, avg_locals, order, substitute, line, lat, pos, lineups_df>>
    /\ UNCHANGED <<results_vars, players_vars, rounds_vars>>

\* lines 335-340: both requests, then the two formation strings
GetLineups ==
    /\ pc = "lineups"
    /\ fetched' = fetched \cup (IF Event.fetch = "lineups" THEN {<<i, "lineups">>} ELSE {<<i, "lineups">>, <<i, "average">>})
    /\ IF Event.fetch \in {"lineups", "average", "noformation"}
       THEN Except /\ UNCHANGED <<home_formation, away_formation>>
       ELSE /\ home_formation' = Event.hf
            /\ away_formation' = Event.af
            /\ pc' = "parse"
            /\ UNCHANGED <<i, printed>>
    /\ UNCHANGED <<events, dfs, emitted, home_shape, away_shape, j, k, home, away, home_avg, away_avg, avg_locals, order, substitute, line, lat, pos, lineups_df>>
    /\ UNCHANGED <<results_vars, players_vars, rounds_vars>>

\* lines 342-374: both formations parsed, the four lists emptied
ParseFormations ==
    /\ pc = "parse"
    /\ IF home_formation_raises(home_formation)
       THEN Except /\ UNCHANGED <<home_shape, away_shape, home, away, home_avg, away_avg, j>>
       ELSE IF away_formation_raises(away_formation)
       THEN /\ Except
            /\ home_shape' = home_counts(home_formation)
            /\ UNCHANGED <<away_shape, home, away, home_avg, away_avg, j>>
       ELSE /\ home_shape' = home_counts(home_formation)
            /\ away_shape' = away_counts(away_formation)
            /\ home' = <<>> /\ away' = <<>> /\ home_avg' = <<>> /\ away_avg' = <<>>
            /\ j' = 0
            /\ pc' = "home"
            /\ UNCHANGED <<i, printed>>
    /\ UNCHANGED <<events, dfs, emitted, fetched, home_formation, away_formation, k, avg_locals, order, substitute, line, lat, pos, lineups_df>>
    /\ UNCHANGED <<results_vars, players_vars, rounds_vars>>

\* lines 377-398: one pass of the home roster loop
HomePlayer ==
    /\ pc = "home" /\ j < Len(HomePlayers(Event))
    /\ LET player == HomePlayers(Event)[j + 1]
           locals == ReadSample(HomeAverage(Event), j, avg_locals)
           row == PlayerRow(player, j + 1, home_shape)
       IN  /\ avg_locals' = locals
           /\ order' = j + 1
           /\ substitute' = player.substitute
           /\ line' = row.line /\ lat' = row.lat /\ pos' = row.pos
           /\ home' = Append(home, row)
           /\ IF "avg_id" \in DOMAIN locals
              THEN /\ home_avg' = Append(home_avg, AvgRow(locals))
                   /\ j' = j + 1
                   /\ UNCHANGED <<i, pc, printed>>
              ELSE \* reading the unbound local raises UnboundLocalError
                   Except /\ UNCHANGED <<home_avg, j>>
    /\ UNCHANGED <<events, dfs, emitted, fetched, home_formation, away_formation, home_shape, away_shape, k, away, away_avg, lineups_df>>
    /\ UNCHANGED <<results_vars, players_vars, rounds_vars>>

\* line 377 exhausted, line 401 entered
HomeLoopEnd ==
    /\ pc = "home" /\ j = Len(HomePlayers(Event))
    /\ pc' = "away"
    /\ k' = 0
    /\ UNCHANGED <<events, i, dfs, printed, emitted, fetched, home_formation, away_formation, home_shape, away_shape, j, home, away, home_avg, away_avg, avg_locals, order, substitute, line, lat, pos, lineups_df>>
    /\ UNCHANGED <<results_vars, players_vars, rounds_vars>>

\* lines 401-422: one pass of the away roster loop
AwayPlayer ==
    /\ pc = "away" /\ k < Len(AwayPlayers(Event))
    /\ LET player == AwayPlayers(Event)[k + 1]
           locals == ReadSample(AwayAverage(Event), k, avg_locals)
           row == PlayerRow(player, k + 1, away_shape)
       IN  /\ avg_locals' = locals
           /\ order' = k + 1
           /\ substitute' = player.substitute
           /\ line' = row.line /\ lat' = row.lat /\ pos' = row.pos
           /\ away' = Append(away, row)
           /\ IF "avg_id" \in DOMAIN locals
              THEN /\ away_avg' = Append(away_avg, AvgRow(locals))
                   /\ k' = k + 1
                   /\ UNCHANGED <<i, pc, printed>>
              ELSE Except /\ UNCHANGED <<away_avg, k>>
    /\ UNCHANGED <<events, dfs, emitted, fetched, home_formation, away_formation, home_shape, away_shape, j, home, home_avg, lineups_df>>
    /\ UNCHANGED <<results_vars, players_vars, rounds_vars>>

\* lines 424-452: frames, merge, append to dfs
Merge ==
    /\ pc = "away" /\ k = Len(AwayPlayers(Event))
    /\ LET home_df == TeamFrame(home, "Home", "H", home_formation, home_shape)
           away_df == TeamFrame(away, "Away", "A", away_formation, away_shape)
           df_avg_position == home_avg \o away_avg
           df == home_df \o away_df
           df_merged == merge_left(df, df_avg_position)
       IN  dfs' = Append(dfs, df_merged)
    /\ emitted' = Append(emitted, i)
    /\ i' = i + 1
    /\ pc' = "loop"
    /\ UNCHANGED <<events, printed, fetched, home_formation, away_formation, home_shape, away_shape, j, k, home, away, home_avg, away_avg, avg_locals, order, substitute, line, lat, pos, lineups_df>>
    /\ UNCHANGED <<results_vars, players_vars, rounds_vars>>

\* lines 457-462: pd.concat of an empty list raises ValueError, outside the try
Return ==
    /\ pc = "loop" /\ i = Len(events)
    /\ IF dfs = <<>>
       THEN pc' = "raised" /\ lineups_df' = lineups_df
       ELSE pc' = "done" /\ lineups_df' = concat(dfs)
    /\ UNCHANGED <<events, i, dfs, printed, emitted, fetched, home_formation, away_formation, home_shape, away_shape, j, k, home, away, home_avg, away_avg, avg_locals, order, substitute, line, lat, pos>>
    /\ UNCHANGED <<results_vars, players_vars, rounds_vars>>

Next ==
    \/ GetEventData
    \/ GetLineups
    \/ ParseFormations
    \/ HomePlayer
    \/ HomeLoopEnd
    \/ AwayPlayer
    \/ Merge
    \/ Return

Spec == Init /\ [][Next]_vars

-----------------------------------------------------------------------------
(* determine_position and the formation parsing on their own: one call,    *)
(* its arguments either given directly or parsed from a formation string   *)

\* a formation string of one-digit groups: str(g[1]) + '-' + str(g[2]) + ...
RECURSIVE FormationString(_)
FormationString(g) ==
    IF Len(g) = 1 THEN <<Digits[g[1] + 1]>>
    ELSE <<Digits[g[1] + 1], "-">> \o FormationString(Tail(g))

RECURSIVE SumSeq(_)
SumSeq(g) == IF g = <<>> THEN 0 ELSE Head(g) + SumSeq(Tail(g))

\* groups of the well-formed formations: 3 or 4 positive groups, 10 outfield players
ValidGroups == {g \in [1..3 -> 1..8] \cup [1..4 -> 1..7] : SumSeq(g) = 10}

\* groups with zero counts and wrong totals
SmallGroups == [1..3 -> 0..MaxCount] \cup [1..4 -> 0..MaxCount]

ResolveFormations ==
    {FormationString(g) : g \in ValidGroups \cup SmallGroups}
    \cup {F44, F31411, F4, F4_33, F4x3, F460}

Shapes == [def : 0..MaxCount, mid_0 : 0..MaxCount, mid_1 : 0..MaxCount, mid_2 : 0..MaxCount, ata : 0..MaxCount]

InitResolve ==
    /\ order \in 1..MaxOrder
    /\ substitute \in BOOLEAN
    /\ \/ /\ pc = "r_parse"
          /\ home_formation \in ResolveFormations
          /\ away_formation = home_formation
          /\ home_shape = Unset /\ away_shape = Unset
       \/ /\ pc = "r_counts"
          /\ home_formation = Unset /\ away_formation = Unset
          /\ home_shape \in Shapes /\ away_shape = Unset
    /\ line = None /\ lat = NoneLat /\ pos = None
    /\ events = <<>> /\ i = 0 /\ dfs = <<>> /\ printed = <<>> /\ emitted = <<>>
    /\ fetched = {} /\ j = 0 /\ k = 0
    /\ home = <<>> /\ away = <<>> /\ home_avg = <<>> /\ away_avg = <<>>
    /\ avg_locals = <<>> /\ lineups_df = <<>>
    /\ OthersIdle({})

\* lines 342-368 on one formation string, as the home and as the away formation
ParseShapes ==
    /\ pc = "r_parse"
    /\ IF home_formation_raises(home_formation) \/ away_formation_raises(away_formation)
       THEN pc' = "r_rejected" /\ UNCHANGED <<home_shape, away_shape>>
       ELSE /\ home_shape' = home_counts(home_formation)
            /\ away_shape' = away_counts(away_formation)
            /\ pc' = "r_counts"
    /\ UNCHANGED <<events, i, dfs, printed, emitted, fetched, home_formation, away_formation, j, k, home, away, home_avg, away_avg, avg_locals, order, substitute, line, lat, pos, lineups_df>>
    /\ UNCHANGED <<results_vars, players_vars, rounds_vars>>

\* line 394: line, lat, pos = determine_position(order, ..., substitute)
Resolve ==
    /\ pc = "r_counts"
    /\ LET r == determine_position(order, home_shape.def, home_shape.mid_0, home_shape.mid_1, home_shape.mid_2, home_shape.ata, substitute)
       IN  line' = r[1] /\ lat' = r[2] /\ pos' = r[3]
    /\ pc' = "r_resolved"
    /\ UNCHANGED <<events, i, dfs, printed, emitted, fetched, home_formation, away_formation, home_shape, away_shape, j, k, home, away, home_avg, away_avg, avg_locals, order, substitute, lineups_df>>
    /\ UNCHANGED <<results_vars, players_vars, rounds_vars>>

NextResolve == ParseShapes \/ Resolve

SpecResolve == InitResolve /\ [][NextResolve]_vars

-----------------------------------------------------------------------------
(* get_results_from_events, lines 465-543.  An event descriptor is         *)
(*   [status, fetch, homeScore, awayScore]                                 *)
(* fetch = "event" when the request of get_event_data raises; the scores   *)
(* are event_data['event'][...]['display'], integers that int() leaves as  *)
(* they are.  The event's 'id' is its place in the list.                   *)

ResultInputs ==
    [status : {"finished"}, fetch : {"ok"}, homeScore : 0..MaxScore, awayScore : 0..MaxScore]
    \cup {[status |-> "notstarted", fetch |-> "ok", homeScore |-> 1, awayScore |-> 0]}
    \cup {[status |-> "finished", fetch |-> "event", homeScore |-> 1, awayScore |-> 0]}

\* lines 499-509
home_dic(event_id, e) ==
    [event_id |-> event_id, team |-> "H", team_id |-> 1,
     score_for |-> e.homeScore, score_against |-> e.awayScore,
     win |-> e.homeScore > e.awayScore,
     draw |-> e.homeScore = e.awayScore,
     loose |-> e.homeScore < e.awayScore,
     local |-> "Home"]

\* faulty variant: the away row built from the home side's point of view
away_dic_unmirrored(event_id, e) ==
    [event_id |-> event_id, team |-> "A", team_id |-> 2,
     score_for |-> e.homeScore, score_against |-> e.awayScore,
     win |-> e.homeScore > e.awayScore,
     draw |-> e.homeScore = e.awayScore,
     loose |-> e.homeScore < e.awayScore,
     local |-> "Away"]

\* lines 512-522
away_dic(event_id, e) ==
    [event_id |-> event_id, team |-> "A", team_id |-> 2,
     score_for |-> e.awayScore, score_against |-> e.homeScore,
     win |-> e.awayScore > e.homeScore,
     draw |-> e.awayScore = e.homeScore,
     loose |-> e.awayScore < e.homeScore,
     local |-> "Away"]

InitResults ==
    /\ events \in UNION {[1..n -> ResultInputs] : n \in 0..MaxEvents}
    /\ i = 0 /\ pc = "res_loop"
    /\ dfs = <<>> /\ emitted = <<>> /\ results_df = <<>>
    /\ printed = <<>> /\ fetched = {}
    /\ home_formation = Unset /\ away_formation = Unset
    /\ home_shape = Unset /\ away_shape = Unset
    /\ j = 0 /\ k = 0
    /\ home = <<>> /\ away = <<>> /\ home_avg = <<>> /\ away_avg = <<>>
    /\ avg_locals = <<>>
    /\ order = 0 /\ substitute = FALSE
    /\ line = None /\ lat = NoneLat /\ pos = None
    /\ lineups_df = <<>>
    /\ OthersIdle({"results"})

\* lines 479-532: one pass of the for loop; there is no try, an exception
\* of the request leaves the function
ResultsEvent ==
    /\ pc = "res_loop" /\ i < Len(events)
    /\ IF Event.fetch = "event"
       THEN pc' = "res_raised" /\ UNCHANGED <<i, dfs, emitted>>
       ELSE /\ pc' = pc /\ i' = i + 1
            /\ IF Event.status = "finished"
               THEN /\ dfs' = Append(dfs, <<home_dic(i, Event), away_dic(i, Event)>>)
                    /\ emitted' = Append(emitted, i)
               ELSE UNCHANGED <<dfs, emitted>>
    /\ UNCHANGED <<events, j, lineup_vars, results_vars, players_vars, rounds_vars>>

\* lines 534-543: pd.concat of an empty list raises ValueError
ResultsReturn ==
    /\ pc = "res_loop" /\ i = Len(events)
    /\ IF dfs = <<>>
       THEN pc' = "res_raised" /\ results_df' = results_df
       ELSE pc' = "res_done" /\ results_df' = concat(dfs)
    /\ UNCHANGED <<events, i, dfs, emitted, j, lineup_vars, players_vars, rounds_vars>>

NextResults == ResultsEvent \/ ResultsReturn

SpecResults == InitResults /\ [][NextResults]_vars

-----------------------------------------------------------------------------
(* get_players_from_teams: pvd_Sofascore.py lines 201-259, pvd_Fotmob.py   *)
(* lines 76-136, pvd_Fbref.py lines 202-264.  A team is the page its link  *)
(* answers: [container, links]; container says whether the page holds     *)
(* div#all_stats_standard (read by pvd_Fbref.py only).  An href is         *)
(*   [player, summary, n]                                                  *)
(* player: it holds the provider's player path; summary: it holds          *)
(* 'summary'; n tells hrefs apart.  The team's name is its place in the    *)
(* list.                                                                   *)

Providers == {"sofascore", "fotmob", "fbref"}

HrefP1 == [player |-> TRUE, summary |-> FALSE, n |-> 1]
HrefP2 == [player |-> TRUE, summary |-> FALSE, n |-> 2]
HrefOther == [player |-> FALSE, summary |-> FALSE, n |-> 3]
HrefP1Summary == [player |-> TRUE, summary |-> TRUE, n |-> 1]

PageInputs ==
    {[container |-> TRUE, links |-> l] :
        l \in {<<>>, <<HrefP1>>, <<HrefP1, HrefP1>>, <<HrefP1, HrefOther, HrefP2>>,
               <<HrefP2, HrefP1>>, <<HrefOther, HrefOther>>, <<HrefP1Summary, HrefP1Summary, HrefP1>>}}
    \cup {[container |-> FALSE, links |-> <<HrefP1>>]}

\* soup.find_all('a', href=True); in pvd_Fbref.py the anchors of the
\* container, none when the page has no container (lines 230-233)
Links(page) == IF provider = "fbref" /\ ~page.container THEN <<>> ELSE page.links

\* faulty variant: an href is compared with the last one processed only
InRepeated_last(href, rep) == rep # <<>> /\ rep[Len(rep)] = href

\* `href in repeated`
InRepeated(href, rep) == \E q \in 1..Len(rep) : rep[q] = href

\* the test that guards repeated.append(href): Sofascore line 232,
\* Fotmob line 105, Fbref line 238
Fresh(href, rep) == ~InRepeated(href, rep) /\ (provider = "fbref" => ~href.summary)

\* the dictionary appended for a player href by team `team`; 'link' is the
\* provider's site prefix followed by the href
player_info(href, team) == [id |-> href.n, team |-> team, link |-> <<provider, href>>]

InitPlayers ==
    /\ provider \in Providers
    /\ teams \in UNION {[1..n -> PageInputs] : n \in 0..MaxTeams}
    /\ players_dic = <<>> /\ repeated = <<>>
    /\ i = 0 /\ j = 0 /\ pc = "pl_team"
    /\ events = <<>> /\ dfs = <<>> /\ emitted = <<>>
    /\ printed = <<>> /\ fetched = {}
    /\ home_formation = Unset /\ away_formation = Unset
    /\ home_shape = Unset /\ away_shape = Unset
    /\ k = 0
    /\ home = <<>> /\ away = <<>> /\ home_avg = <<>> /\ away_avg = <<>>
    /\ avg_locals = <<>>
    /\ order = 0 /\ substitute = FALSE
    /\ line = None /\ lat = NoneLat /\ pos = None
    /\ lineups_df = <<>>
    /\ OthersIdle({"players"})

\* the next team: its page requested and parsed
PlayersTeam ==
    /\ pc = "pl_team" /\ i < Len(teams)
    /\ pc' = "pl_links" /\ j' = 0
    /\ UNCHANGED <<events, i, dfs, emitted, lineup_vars, results_vars, players_vars, rounds_vars>>

\* one pass of `for link in links`; in pvd_Fotmob.py the dictionary is
\* appended only when get_player_data answers
PlayersLink ==
    /\ pc = "pl_links" /\ j < Len(Links(teams[i + 1]))
    /\ LET href == Links(teams[i + 1])[j + 1]
       IN  IF Fresh(href, repeated)
           THEN /\ repeated' = Append(repeated, href)
                /\ IF href.player
                   THEN \E data \in (IF provider = "fotmob" THEN BOOLEAN ELSE {TRUE}) :
                            players_dic' = IF data THEN Append(players_dic, player_info(href, i + 1)) ELSE players_dic
                   ELSE players_dic' = players_dic
           ELSE UNCHANGED <<repeated, players_dic>>
    /\ j' = j + 1
    /\ UNCHANGED <<events, i, pc, dfs, emitted, lineup_vars, results_vars, teams, provider, rounds_vars>>

\* the links of the page exhausted
PlayersTeamEnd ==
    /\ pc = "pl_links" /\ j = Len(Links(teams[i + 1]))
    /\ pc' = "pl_team" /\ i' = i + 1
    /\ UNCHANGED <<events, dfs, emitted, j, lineup_vars, results_vars, players_vars, rounds_vars>>

\* the list returned
PlayersReturn ==
    /\ pc = "pl_team" /\ i = Len(teams)
    /\ pc' = "pl_done"
    /\ UNCHANGED <<events, i, dfs, emitted, j, lineup_vars, results_vars, players_vars, rounds_vars>>

NextPlayers == PlayersTeam \/ PlayersLink \/ PlayersTeamEnd \/ PlayersReturn

SpecPlayers == InitPlayers /\ [][NextPlayers]_vars

-----------------------------------------------------------------------------
(* The round loop of get_events_from_league, lines 121-198.  driver is the *)
(* list of pages the browser shows, one per round, from the one opened     *)
(* first; clicking the previous-round button shows the next page of the    *)
(* list and raises when there is none.  A page is                          *)
(*   [items, cells]                                                        *)
(* items: the texts of the div.Text.nZQAT elements of the round container; *)
(* cells: the event cells, each "event" (an href whose data request        *)
(* answers), "summary" (an href with 'summary'), "nohref" (no href) or     *)
(* "fails" (an href whose id lookup or data request raises).               *)

StrRound == <<"R", "o", "u", "n", "d">>
StrRonda == <<"R", "o", "n", "d", "a">>
TextRound2 == <<"R", "o", "u", "n", "d", " ", "2">>
TextRound1 == <<"R", "o", "u", "n", "d", " ", "1">>
TextRonda2 == <<"R", "o", "n", "d", "a", " ", "2">>
TextWeek3 == <<"W", "e", "e", "k", " ", "3">>
TextFinal == <<"F", "i", "n", "a", "l">>
TextEmpty == <<>>

BasePage == [items |-> <<TextRound2>>, cells |-> <<"event">>]

RoundPages ==
    {BasePage}
    \cup {[BasePage EXCEPT !.items = x] : x \in {<<>>, <<TextRound1>>, <<TextRonda2>>, <<TextFinal, TextRound2>>, <<TextEmpty, TextRound2>>, <<TextWeek3, TextRound2>>}}
    \cup {[BasePage EXCEPT !.cells = x] : x \in {<<>>, <<"summary", "event", "nohref">>, <<"event", "fails", "event">>}}

\* the truth value Python gives a str
Truthy(str) == str # <<>>

\* `sub in text`
Contains(text, sub) == \E q \in 0..(Len(text) - Len(sub)) : SubSeq(text, q + 1, q + Len(sub)) = sub

\* faulty variant: both words looked for in the text
RoundCondition_in_text(round_text) == Contains(round_text, StrRound) \/ Contains(round_text, StrRonda)

\* line 132: `'Round' or 'Ronda' in round_text` is `'Round' or ('Ronda' in
\* round_text)`, and `or` yields its first operand when that is truthy
RoundCondition(round_text) == IF Truthy(StrRound) THEN Truthy(StrRound) ELSE Contains(round_text, StrRonda)

\* lines 129-134: the text of the first item that passes the condition
SelectRound(items) ==
    IF \E q \in 1..Len(items) : RoundCondition(items[q])
    THEN items[CHOOSE q \in 1..Len(items) : RoundCondition(items[q]) /\ \A r \in 1..(q - 1) : ~RoundCondition(items[r])]
    ELSE NoRound

\* the str 'Not found' (no word of a text split at ' ' equals it)
NotFound == <<"Not found">>

\* line 137
CurrentRoundNumber(selected) ==
    IF selected # NoRound /\ Truthy(selected)
    THEN LET words == split(selected, " ") IN words[Len(words)]
    ELSE NotFound

Page == driver[i + 1]

\* the first cell of the page whose processing raises, 0 when none does
FirstFailing(cells) ==
    IF \E q \in 1..Len(cells) : cells[q] = "fails"
    THEN CHOOSE q \in 1..Len(cells) : cells[q] = "fails" /\ \A r \in 1..(q - 1) : cells[r] # "fails"
    ELSE 0

\* lines 146-173: the dictionaries appended for `cells`
RECURSIVE RoundResults(_, _, _)
RoundResults(cells, round, at) ==
    IF cells = <<>> THEN <<>>
    ELSE (IF Head(cells) = "event" THEN <<[round |-> round, page |-> i, cell |-> at]>> ELSE <<>>)
         \o RoundResults(Tail(cells), round, at + 1)

InitRounds ==
    /\ driver \in UNION {[1..n -> RoundPages] : n \in 1..MaxRounds}
    /\ round_number = None /\ selected_round = NoRound /\ events_dic = <<>> /\ stop = "none"
    /\ i = 0 /\ j = 0 /\ pc = "rd_select"
    /\ events = <<>> /\ dfs = <<>> /\ emitted = <<>>
    /\ printed = <<>> /\ fetched = {}
    /\ home_formation = Unset /\ away_formation = Unset
    /\ home_shape = Unset /\ away_shape = Unset
    /\ k = 0
    /\ home = <<>> /\ away = <<>> /\ home_avg = <<>> /\ away_avg = <<>>
    /\ avg_locals = <<>>
    /\ order = 0 /\ substitute = FALSE
    /\ line = None /\ lat = NoneLat /\ pos = None
    /\ lineups_df = <<>>
    /\ OthersIdle({"rounds"})

\* lines 125-142: the round of the page shown
RoundSelect ==
    /\ pc = "rd_select"
    /\ LET selected == SelectRound(Page.items)
           current_round_number == CurrentRoundNumber(selected)
       IN  /\ selected_round' = selected
           /\ IF current_round_number = NotFound
              THEN stop' = "not_found" /\ pc' = "rd_quit" /\ round_number' = round_number
              ELSE IF int_raises(current_round_number)
              THEN \* int() raises ValueError, which leaves the function
                   stop' = "exception" /\ pc' = "rd_quit" /\ round_number' = round_number
              ELSE stop' = stop /\ pc' = "rd_cells" /\ round_number' = int(current_round_number)
    /\ UNCHANGED <<events, i, dfs, emitted, j, lineup_vars, results_vars, players_vars, driver, events_dic>>

\* lines 144-173: the event cells of the page
RoundCells ==
    /\ pc = "rd_cells"
    /\ LET f == FirstFailing(Page.cells)
       IN  IF f = 0
           THEN /\ events_dic' = events_dic \o RoundResults(Page.cells, round_number, 1)
                /\ pc' = "rd_check" /\ stop' = stop
           ELSE /\ events_dic' = events_dic \o RoundResults(SubSeq(Page.cells, 1, f - 1), round_number, 1)
                /\ pc' = "rd_quit" /\ stop' = "exception"
    /\ UNCHANGED <<events, i, dfs, emitted, j, lineup_vars, results_vars, players_vars, driver, round_number, selected_round>>

\* lines 175-187: round 1 reached, or the previous round opened
RoundCheck ==
    /\ pc = "rd_check"
    /\ IF round_number <= 1
       THEN stop' = "round" /\ pc' = "rd_quit" /\ i' = i
       ELSE IF i + 1 < Len(driver)
       THEN stop' = stop /\ pc' = "rd_select" /\ i' = i + 1
       ELSE stop' = "navigate" /\ pc' = "rd_quit" /\ i' = i
    /\ UNCHANGED <<events, dfs, emitted, j, lineup_vars, results_vars, players_vars, driver, round_number, selected_round, events_dic>>

\* lines 189-198: driver.quit(), then the list returned or the exception passed on
RoundQuit ==
    /\ pc = "rd_quit"
    /\ pc' = IF stop = "exception" THEN "rd_raised" ELSE "rd_done"
    /\ UNCHANGED <<events, i, dfs, emitted, j, lineup_vars, results_vars, players_vars, rounds_vars>>

NextRounds == RoundSelect \/ RoundCells \/ RoundCheck \/ RoundQuit

SpecRounds == InitRounds /\ [][NextRounds]_vars

-----------------------------------------------------------------------------
(* Claims about determine_position and the formation parsing (SpecResolve) *)

\* a formation string read off its characters: one-digit groups at the odd places
IsGroups(f, n) ==
    /\ Len(f) = 2 * n - 1
    /\ \A p \in 1..Len(f) : IF p % 2 = 1 THEN IsDigit(f[p]) ELSE f[p] = "-"

Group(f, g) == DigitVal(f[2 * g - 1])

\* n positive groups that sum to 10
IsValid(f, n) ==
    /\ IsGroups(f, n)
    /\ \A g \in 1..n : Group(f, g) > 0
    /\ SumSeq([g \in 1..n |-> Group(f, g)]) = 10

Resolved == pc = "r_resolved"

\* C1: order 1 resolves to the goalkeeper triple ('por', '1/1', 'POR') for
\* every combination of the five counts and either substitute flag.
C1_GoalkeeperAtOrderOne ==
    (Resolved /\ order = 1) => (line = "por" /\ lat = <<1, 1>> /\ pos = "POR")

C1_Witness ==
    /\ Resolved /\ order = 1 /\ substitute
    /\ home_shape.def = 0 /\ home_shape.mid_1 = MaxCount
    /\ line = "por"

\* C2: a 4-group string a-b-c-d parses to defense a, mid_0 b, mid_1 0,
\* mid_2 c, attack d, and a 3-group string a-b-c to defense a, mid_0 0,
\* mid_1 b, mid_2 0, attack c, for the home side and for the away side alike.
C2_AsymmetricParsing ==
    (pc \in {"r_counts", "r_resolved"}) =>
        /\ IsGroups(home_formation, 4) =>
             LET shape == [def |-> Group(home_formation, 1), mid_0 |-> Group(home_formation, 2), mid_1 |-> 0, mid_2 |-> Group(home_formation, 3), ata |-> Group(home_formation, 4)]
             IN  home_shape = shape /\ away_shape = shape
        /\ IsGroups(home_formation, 3) =>
             LET shape == [def |-> Group(home_formation, 1), mid_0 |-> 0, mid_1 |-> Group(home_formation, 2), mid_2 |-> 0, ata |-> Group(home_formation, 3)]
             IN  home_shape = shape /\ away_shape = shape

C2_Witness ==
    /\ pc = "r_counts" /\ home_formation = F4231 /\ away_formation = F4231
    /\ away_shape = [def |-> 4, mid_0 |-> 2, mid_1 |-> 0, mid_2 |-> 3, ata |-> 1]

\* C3: for every valid 4-group formation d-m0-m1-ata, orders 2..1+d resolve
\* to line def with denominator d, orders d+2..d+1+m0 to line mid_0 with
\* denominator m0, and no order resolves to line mid_1.
C3_FourGroupLines ==
    (Resolved /\ IsValid(home_formation, 4)) =>
        LET d == Group(home_formation, 1)
            m0 == Group(home_formation, 2)
        IN  /\ order \in 2..(1 + d) => (line = "def" /\ lat = <<order - 1, d>>)
            /\ order \in (d + 2)..(d + 1 + m0) => (line = "mid_0" /\ lat = <<order - 1 - d, m0>>)
            /\ line # "mid_1"

C3_Witness ==
    /\ Resolved /\ home_formation = F4231 /\ order = 7
    /\ line = "mid_0" /\ lat = <<2, 2>>

\* C4: for every valid 3-group formation d-m-ata, no order resolves to line
\* mid_0 or mid_2, and every order in d+2..d+1+m resolves to line mid_1
\* with denominator m.
C4_ThreeGroupLines ==
    (Resolved /\ IsValid(home_formation, 3)) =>
        LET d == Group(home_formation, 1)
            m == Group(home_formation, 2)
        IN  /\ line \notin {"mid_0", "mid_2"}
            /\ order \in (d + 2)..(d + 1 + m) => (line = "mid_1" /\ lat = <<order - 1 - d, m>>)

C4_Witness ==
    /\ Resolved /\ home_formation = F433 /\ order = 8
    /\ line = "mid_1" /\ lat = <<3, 3>>

\* C5: when the outfield groups sum to 10, every order from 12 on resolves
\* to a null line and slot with code 'SUS' for a flagged substitute and
\* 'RES' for an unflagged entry.
C5_BenchOrders ==
    (Resolved /\ order >= 12 /\ home_shape.def + home_shape.mid_0 + home_shape.mid_1 + home_shape.mid_2 + home_shape.ata = 10) =>
        /\ line = None /\ lat = NoneLat
        /\ pos = IF substitute THEN "SUS" ELSE "RES"

C5_Witness ==
    /\ Resolved /\ order = 12 /\ ~substitute /\ home_formation = F4231
    /\ pos = "RES" /\ line = None

-----------------------------------------------------------------------------
(* Claims about the batch loop (Spec) *)

\* the event whose table is dfs[m]
EmittedEvent(m) == events[emitted[m] + 1]

\* C6: every table appended for a match holds exactly one row per roster
\* entry: as many rows as the two rosters have entries, and no two rows
\* with the same side and order.
C6_OneRowPerRosterEntry ==
    \A m \in 1..Len(dfs) :
        /\ Len(dfs[m]) = Len(HomePlayers(EmittedEvent(m))) + Len(AwayPlayers(EmittedEvent(m)))
        /\ \A a, b \in 1..Len(dfs[m]) :
               (dfs[m][a].local = dfs[m][b].local /\ dfs[m][a].order = dfs[m][b].order) => a = b

\* C7: in every table, the denominator of a row's lateral slot is the number
\* of rows of the same side that carry the row's line.
C7_DenominatorCountsLine ==
    \A m \in 1..Len(dfs) : \A a \in 1..Len(dfs[m]) :
        dfs[m][a].line # None =>
            dfs[m][a].lat[2] = Cardinality({b \in 1..Len(dfs[m]) : dfs[m][b].local = dfs[m][a].local /\ dfs[m][b].line = dfs[m][a].line})

\* 3 or 4 pieces between the '-', each a non-empty run of digits
ThreeOrFourNumericGroups(f) ==
    LET g == split(f, "-")
    IN  Len(g) \in {3, 4} /\ \A p \in 1..Len(g) : ~int_raises(g[p])

\* C8: a match with a formation that is not 3 or 4 non-empty numeric groups
\* contributes no table.
C8_MalformedFormationRejected ==
    \A m \in 1..Len(dfs) :
        /\ ThreeOrFourNumericGroups(EmittedEvent(m).hf)
        /\ ThreeOrFourNumericGroups(EmittedEvent(m).af)

\* every numeric piece is a positive integer
PositiveGroups(f) ==
    LET g == split(f, "-")
    IN  \A p \in 1..Len(g) : ~int_raises(g[p]) => int(g[p]) > 0

\* C9: a match with a formation group that is not a positive integer
\* contributes no table.
C9_ZeroGroupRejected ==
    \A m \in 1..Len(dfs) :
        /\ PositiveGroups(EmittedEvent(m).hf)
        /\ PositiveGroups(EmittedEvent(m).af)

InSeq(x, q) == \E p \in 1..Len(q) : q[p] = x

\* C10: an exception while processing one match adds no table for it,
\* leaves the tables of earlier matches as they were, and the loop goes on
\* with the next match: at the end every match was skipped for its status,
\* reported, or appended.
C10_State ==
    /\ Len(dfs) = Len(emitted)
    /\ \A x \in 0..(Len(events) - 1) : ~(InSeq(x, printed) /\ InSeq(x, emitted))
    /\ \A x \in 0..(i - 1) :
           \/ InSeq(x, printed)
           \/ InSeq(x, emitted)
           \/ events[x + 1].status # "finished"
    /\ pc \in {"done", "raised"} => i = Len(events)

C10_Step ==
    /\ \A m \in 1..Len(dfs) : Len(dfs') >= m /\ dfs'[m] = dfs[m]
    /\ printed' # printed =>
           /\ printed' = Append(printed, i)
           /\ dfs' = dfs
           /\ pc' = "loop" /\ i' = i + 1

C10_ExceptionContained == [](C10_State) /\ [][C10_Step]_vars

C10_Witness ==
    /\ pc = "done" /\ Len(events) = 2
    /\ emitted = <<0>> /\ printed = <<1>>
    /\ events[2].hf = F4x3
    /\ Len(dfs) = 1 /\ Len(dfs[1]) >= 11

\* C11: the batch never fails as a whole: when no match yields a table the
\* function still returns (an empty table) instead of raising.
C11_BatchNeverRaises == Len(events) > 0 => pc # "raised"

IsNull(row) == row.averageX = NaN /\ row.averageY = NaN /\ row.pointsCount = NaN

SideRows(t, local) == {a \in 1..Len(t) : t[a].local = local}

\* the merge property for one side of table t: n roster entries, m samples
MergeProperty(t, local, n, m) ==
    /\ m = n => \A a \in SideRows(t, local) : t[a].averageX # NaN /\ t[a].averageY # NaN
    /\ m = n - 1 =>
          /\ Cardinality({a \in SideRows(t, local) : IsNull(t[a])}) = 1
          /\ \A a \in SideRows(t, local) : IsNull(t[a]) <=> t[a].order = n

\* C12: with a sample list aligned index for index with a roster of N
\* entries, N samples leave no row of the side with null averageX/averageY,
\* and N-1 samples leave exactly one row with null spatial fields, the row
\* of the last roster entry.
C12_MergeProperty ==
    \A m \in 1..Len(dfs) :
        LET e == EmittedEvent(m)
        IN  /\ e.hk = "aligned" => MergeProperty(dfs[m], "Home", e.hn, e.hm)
            /\ e.ak = "aligned" => MergeProperty(dfs[m], "Away", e.an, e.am)

C12_Witness ==
    /\ Len(dfs) = 1 /\ EmittedEvent(1).hm = EmittedEvent(1).hn - 1
    /\ EmittedEvent(1).am = EmittedEvent(1).an
    /\ \E a \in SideRows(dfs[1], "Home") : IsNull(dfs[1][a]) /\ dfs[1][a].order = MaxRoster

\* an event with nothing wrong but, possibly, its sample lists
Clean(e) ==
    /\ e.status = "finished" /\ e.fetch = "ok"
    /\ ~home_formation_raises(e.hf) /\ ~away_formation_raises(e.af)

Incomplete(e) == e.hm < e.hn \/ e.am < e.an \/ e.hk = "foreign" \/ e.ak = "foreign"

OwnSampleIds(e) ==
    {HomeAverage(e)[q].player.id : q \in 1..e.hm} \cup {AwayAverage(e)[q].player.id : q \in 1..e.am}

\* C13: a match whose sample list is shorter than the roster (or empty), or
\* holds identifiers absent from the roster, is still emitted, at any
\* position of the batch, and its rows without a sample keep null spatial
\* fields.
C13_IncompleteSampleNotFatal ==
    \A x \in 0..(i - 1) :
        (Clean(events[x + 1]) /\ Incomplete(events[x + 1])) =>
            /\ InSeq(x, emitted)
            /\ \A m \in 1..Len(dfs) : emitted[m] = x =>
                   \A a \in 1..Len(dfs[m]) :
                       dfs[m][a].id \notin OwnSampleIds(events[x + 1]) => IsNull(dfs[m][a])

Min(a, b) == IF a < b THEN a ELSE b

\* what a batch holding only event e appends for it: the locals start
\* unbound, so an empty home list raises; otherwise a pass without a sample
\* repeats the last sample read in this event
AloneRaises(e) == e.hm = 0

AloneHomeAvg(e) == [idx \in 1..e.hn |-> AvgRow(ReadSample(HomeAverage(e), Min(idx, e.hm) - 1, <<>>))]

AloneAwayAvg(e) ==
    [idx \in 1..e.an |->
        IF e.am > 0
        THEN AvgRow(ReadSample(AwayAverage(e), Min(idx, e.am) - 1, <<>>))
        ELSE AvgRow(ReadSample(HomeAverage(e), Min(e.hn, e.hm) - 1, <<>>))]

AloneTable(e) ==
    LET hs == home_counts(e.hf)
        as == away_counts(e.af)
        home_df == TeamFrame([idx \in 1..e.hn |-> PlayerRow(HomePlayers(e)[idx], idx, hs)], "Home", "H", e.hf, hs)
        away_df == TeamFrame([idx \in 1..e.an |-> PlayerRow(AwayPlayers(e)[idx], idx, as)], "Away", "A", e.af, as)
    IN  merge_left(home_df \o away_df, AloneHomeAvg(e) \o AloneAwayAvg(e))

\* C14: no state is shared between match computations: at any position of
\* a batch a match contributes what it contributes as the only match of a
\* batch (the same table, or nothing).
C14_NoSharedState ==
    \A x \in 0..(i - 1) :
        Clean(events[x + 1]) =>
            /\ AloneRaises(events[x + 1]) => ~InSeq(x, emitted)
            /\ \A m \in 1..Len(dfs) : emitted[m] = x => dfs[m] = AloneTable(events[x + 1])

-----------------------------------------------------------------------------
(* Claims about the group boundaries (SpecResolve) *)

GroupNames == <<"por", "def", "mid_0", "mid_1", "mid_2", "ata">>

GroupSizes == <<1, home_shape.def, home_shape.mid_0, home_shape.mid_1, home_shape.mid_2, home_shape.ata>>

Outfield == home_shape.def + home_shape.mid_0 + home_shape.mid_1 + home_shape.mid_2 + home_shape.ata

\* the boundary before group g and the orders of group g
Before(g) == SumSeq(SubSeq(GroupSizes, 1, g - 1))

Range(g) == (Before(g) + 1)..(Before(g) + GroupSizes[g])

NullTriple == line = None /\ lat = NoneLat /\ pos = None

RECURSIVE Walk(_, _, _, _)
Walk(names, sizes, order_, before) ==
    IF names = <<>> THEN <<None, NoneLat>>
    ELSE IF Head(sizes) = 0 THEN Walk(Tail(names), Tail(sizes), order_, before)
    ELSE IF order_ <= before + Head(sizes) THEN <<Head(names), <<order_ - before, Head(sizes)>>>>
    ELSE Walk(Tail(names), Tail(sizes), order_, before + Head(sizes))

\* C16: for every order >= 1 and non-negative counts, the line of a group
\* of count 0 is never returned, no slot has denominator 0, and the order
\* resolves as if the empty groups were absent.
C16_EmptyGroupSkipped ==
    Resolved =>
        /\ \A g \in 2..6 : GroupSizes[g] = 0 => line # GroupNames[g]
        /\ lat # NoneLat => lat[2] > 0
        /\ <<line, lat>> = Walk(GroupNames, GroupSizes, order, 0)

C16_Witness ==
    /\ Resolved /\ home_shape.def = 2 /\ home_shape.mid_0 = 0 /\ home_shape.mid_1 = 0
    /\ home_shape.mid_2 = 2 /\ order = 4
    /\ line = "mid_2" /\ lat = <<1, 2>>

\* C17: for consecutive non-empty groups G then H with boundary b at the
\* end of G, order b resolves to G with slot size(G)/size(G) and order b+1
\* to H with slot 1/size(H).
C17_BoundaryInclusiveHigh ==
    Resolved =>
        \A g \in 1..5 : \A h \in (g + 1)..6 :
            (GroupSizes[g] > 0 /\ GroupSizes[h] > 0 /\ \A x \in (g + 1)..(h - 1) : GroupSizes[x] = 0) =>
                LET b == Before(g) + GroupSizes[g]
                IN  /\ order = b => (line = GroupNames[g] /\ lat = <<GroupSizes[g], GroupSizes[g]>>)
                    /\ order = b + 1 => (line = GroupNames[h] /\ lat = <<1, GroupSizes[h]>>)

C17_Witness ==
    /\ Resolved /\ home_formation = F433 /\ order = 5
    /\ line = "def" /\ lat = <<4, 4>>

\* C19: when the outfield groups sum to s < 10, every order in s+2..11
\* resolves to the all-null triple for either flag, the formation is not
\* rejected, and the orders up to s+1 and above 11 resolve as usual.
C19_ShortFormationFallback ==
    /\ (pc = "r_rejected") => ~(IsGroups(home_formation, 3) \/ IsGroups(home_formation, 4))
    /\ (Resolved /\ Outfield < 10) =>
          /\ order \in (Outfield + 2)..11 => NullTriple
          /\ order > 11 => (line = None /\ lat = NoneLat /\ pos = IF substitute THEN "SUS" ELSE "RES")
          /\ order <= Outfield + 1 => (line # None /\ <<line, lat>> = Walk(GroupNames, GroupSizes, order, 0))

C19_Witness ==
    /\ Resolved /\ home_formation = <<"3", "-", "3", "-", "2">>
    /\ order = 10 /\ ~substitute /\ NullTriple

-----------------------------------------------------------------------------
(* Claims about the assembled rows (Spec) *)

\* the rows expected for '4-2-3-1' with 11 starters and 3 flagged substitutes
Expected4231(o) ==
    IF o = 1 THEN <<"por", <<1, 1>>, "POR">>
    ELSE IF o <= 5 THEN <<"def", <<o - 1, 4>>, "DEF">>
    ELSE IF o <= 7 THEN <<"mid_0", <<o - 5, 2>>, "MED">>
    ELSE IF o <= 10 THEN <<"mid_2", <<o - 7, 3>>, "MED">>
    ELSE IF o = 11 THEN <<"ata", <<1, 1>>, "ATA">>
    ELSE <<None, NoneLat, "SUS">>

Is4231Scenario(e) ==
    /\ e.af = F4231 /\ e.an = 14
    /\ \A idx \in 12..14 : AwayPlayers(e)[idx].substitute
    /\ e.ak = "aligned" /\ e.am = e.an

RECURSIVE TotalLen(_)
TotalLen(frames) == IF frames = <<>> THEN 0 ELSE Len(Head(frames)) + TotalLen(Tail(frames))

\* C20: the tables are appended in input order and the returned table
\* keeps them in that order; in a table the home rows precede the away
\* rows and the rows of a side run through the orders 1..N of its roster
\* without going back (stated on consecutive rows, which orders them all).
C20_RowOrder ==
    /\ \A a, b \in 1..Len(emitted) : a < b => emitted[a] < emitted[b]
    /\ \A m \in 1..Len(dfs) :
          LET t == dfs[m]
          IN  /\ \A a \in 1..(Len(t) - 1) :
                    /\ ~(t[a].local = "Away" /\ t[a + 1].local = "Home")
                    /\ t[a].local = t[a + 1].local => t[a].order <= t[a + 1].order
              /\ {t[a].order : a \in SideRows(t, "Home")} = 1..Len(HomePlayers(EmittedEvent(m)))
              /\ {t[a].order : a \in SideRows(t, "Away")} = 1..Len(AwayPlayers(EmittedEvent(m)))
    /\ pc = "done" =>
          /\ Len(lineups_df) = TotalLen(dfs)
          /\ \A m \in 1..Len(dfs) : \A q \in 1..Len(dfs[m]) :
                 lineups_df[TotalLen(SubSeq(dfs, 1, m - 1)) + q] = dfs[m][q]

C20_Witness ==
    /\ pc = "done" /\ emitted = <<0, 1>>
    /\ events[1].hn = 11 /\ events[2].hn = MaxRoster
    /\ Len(lineups_df) = Len(dfs[1]) + Len(dfs[2])
    /\ lineups_df[Len(dfs[1]) + 1] = dfs[2][1]

-----------------------------------------------------------------------------
(* Claims about the whole batch and the row metadata (Spec) *)

\* the samples the source answered for event e, both sides
OwnSamples(e) ==
    {HomeAverage(e)[q] : q \in 1..e.hm} \cup {AwayAverage(e)[q] : q \in 1..e.am}

\* C21: the merge is keyed on the player identifier: a row with non-null
\* spatial fields carries the averageX, averageY and pointsCount of a
\* sample of its own match with the row's identifier, and a row whose
\* identifier no sample of its match carries has the three fields null,
\* wherever the samples sit in their lists.
C21_MergeKeyedOnId ==
    \A m \in 1..Len(dfs) :
        \A a \in 1..Len(dfs[m]) :
            LET row == dfs[m][a]
                own == {s \in OwnSamples(EmittedEvent(m)) : s.player.id = row.id}
            IN  /\ ~IsNull(row) =>
                      \E s \in own : /\ row.averageX = s.averageX
                                     /\ row.averageY = s.averageY
                                     /\ row.pointsCount = s.pointsCount
                /\ own = {} => IsNull(row)

\* the metadata the rows of a side owe to its formation f of one-digit groups
SideMeta(f) ==
    LET n == (Len(f) + 1) \div 2
        groups == [g \in 1..n |-> Group(f, g)]
    IN  [wellFormed |-> IsGroups(f, n),
         formation |-> f,
         defense |-> groups[1],
         attack |-> groups[n],
         inner |-> n \in {3, 4},
         midfield |-> SumSeq(SubSeq(groups, 2, n - 1)),
         total |-> SumSeq(groups)]

HasMeta(row, meta) ==
    /\ meta.wellFormed
    /\ row.formation = meta.formation
    /\ row.defense = meta.defense
    /\ row.attack = meta.attack
    /\ meta.inner =>
          /\ row.midfield = meta.midfield
          /\ row.defense + row.midfield + row.attack = meta.total

\* C22: every row carries the metadata of its own side only: rows of the
\* home roster are tagged 'Home', rows of the away roster 'Away', and the
\* formation string, defense, midfield and attack of a row are those of its
\* side's formation, the midfield being the sum of the midfield groups, so
\* that the three add up to the groups of a 3- or 4-group formation.
\* (A table is appended by the step that brings the loop back to its head,
\* so the tables are looked at there.)
C22_OwnSideMetadata ==
    pc = "loop" => \A m \in 1..Len(dfs) :
        LET e == EmittedEvent(m)
            homeIds == {HomeId(idx) : idx \in 1..e.hn}
            awayIds == {AwayId(idx) : idx \in 1..e.an}
            homeMeta == SideMeta(e.hf)
            awayMeta == SideMeta(e.af)
        IN  \A a \in 1..Len(dfs[m]) :
                LET row == dfs[m][a]
                IN  /\ row.local = "Home" <=> row.id \in homeIds
                    /\ row.local = "Away" <=> row.id \in awayIds
                    /\ HasMeta(row, IF row.local = "Home" THEN homeMeta ELSE awayMeta)

C22_Witness ==
    /\ Len(dfs) = 1 /\ EmittedEvent(1).hf = F433 /\ EmittedEvent(1).af = F4231
    /\ \E a \in SideRows(dfs[1], "Home") : dfs[1][a].midfield = 3 /\ dfs[1][a].formation = F433
    /\ \E a \in SideRows(dfs[1], "Away") : dfs[1][a].midfield = 5 /\ dfs[1][a].formation = F4231

-----------------------------------------------------------------------------
(* Further claims about determine_position (SpecResolve) *)

\* C23: for every order >= 1 and non-negative counts, a non-null line comes
\* with the slot 'k/n', n the size of the line's group and k the order minus
\* the boundary before the group, 1 <= k <= n; the line is null exactly
\* when the slot is null.
C23_SlotWithinGroup ==
    Resolved =>
        /\ line = None <=> lat = NoneLat
        /\ line # None =>
              \E g \in 1..6 :
                  /\ GroupNames[g] = line
                  /\ lat = <<order - Before(g), GroupSizes[g]>>
                  /\ 1 <= lat[1] /\ lat[1] <= lat[2]

C23_Witness ==
    /\ Resolved /\ order = 8
    /\ home_shape = [def |-> 2, mid_0 |-> 1, mid_1 |-> 0, mid_2 |-> 2, ata |-> 3]
    /\ line = "ata" /\ lat = <<2, 3>>

\* C26: group membership comes before the bench classification: with
\* outfield groups summing to s > 10, every order in 12..s+1 resolves to a
\* group line with a slot and the code DEF, MED or ATA for either flag, and
\* only orders greater than s+1 resolve to SUS or RES.
C26_GroupBeforeBench ==
    (Resolved /\ Outfield > 10) =>
        /\ order \in 12..(Outfield + 1) =>
              /\ line \in {"def", "mid_0", "mid_1", "mid_2", "ata"}
              /\ lat # NoneLat
              /\ pos \in {"DEF", "MED", "ATA"}
        /\ pos \in {"SUS", "RES"} <=> order > Outfield + 1

C26_Witness ==
    /\ Resolved /\ order = 13 /\ substitute
    /\ home_shape = [def |-> 3, mid_0 |-> 3, mid_1 |-> 3, mid_2 |-> 0, ata |-> 3]
    /\ line = "ata" /\ lat = <<3, 3>> /\ pos = "ATA"

-----------------------------------------------------------------------------
(* Claims about the status filter (Spec) *)

\* an event whose data request answers with a status other than 'finished'
NotFinished(e) == e.fetch # "event" /\ e.status # "finished"

C25_State ==
    /\ \A m \in 1..Len(dfs) : EmittedEvent(m).status = "finished"
    /\ \A x \in 0..(Len(events) - 1) :
           NotFinished(events[x + 1]) =>
               /\ <<x, "lineups">> \notin fetched /\ <<x, "average">> \notin fetched
               /\ ~InSeq(x, emitted)
               /\ ~InSeq(x, printed)
    /\ (pc \notin {"loop", "done", "raised"}) => Event.status = "finished"

C25_Step ==
    (pc = "loop" /\ i < Len(events) /\ NotFinished(Event)) =>
        /\ i' = i + 1 /\ pc' = "loop"
        /\ dfs' = dfs /\ fetched' = fetched /\ printed' = printed

\* C25: only matches whose status is 'finished' contribute rows: for a
\* match with another status lineups and average positions are never
\* fetched, no table is added, nothing is printed, and the loop goes on to
\* the next match.
C25_OnlyFinishedContribute == [](C25_State) /\ [][C25_Step]_vars

C25_Witness ==
    /\ pc = "done" /\ Len(events) = 2
    /\ events[1].status = "notstarted" /\ events[1].fetch = "ok"
    /\ emitted = <<1>> /\ printed = <<>>
    /\ fetched = {<<1, "lineups">>, <<1, "average">>}

-----------------------------------------------------------------------------
(* Claims about the helper create_team_df (Spec) *)

\* the frames the inline loops of the current event have assembled
InlineHomeFrame == TeamFrame(home, "Home", "H", home_formation, home_shape)

InlineAwayFrame == TeamFrame(away, "Away", "A", away_formation, away_shape)

HelperHomeFrame == create_team_df(HomePlayers(Event), home_formation, home_shape.def, home_shape.mid_0, home_shape.mid_1, home_shape.mid_2, home_shape.ata, "H", TRUE)

HelperAwayFrame == create_team_df(AwayPlayers(Event), away_formation, away_shape.def, away_shape.mid_0, away_shape.mid_1, away_shape.mid_2, away_shape.ata, "A", FALSE)

\* when an inline loop runs to its end its frame is the helper's
CompletedLoopsAgree ==
    /\ pc = "away" => InlineHomeFrame = HelperHomeFrame
    /\ (pc = "away" /\ k = Len(AwayPlayers(Event))) => InlineAwayFrame = HelperAwayFrame

\* C27: create_team_df is equivalent to the inline assembly: for the same
\* player list, formation, counts, team name and side the inline loops
\* produce the rows the helper yields (the helper yields a frame for every
\* roster, so the inline loops of every match without another fault run to
\* their end and their frames are the helper's).
C27_HelperEquivalent ==
    /\ CompletedLoopsAgree
    /\ \A x \in 0..(i - 1) : Clean(events[x + 1]) => InSeq(x, emitted)

-----------------------------------------------------------------------------
(* Claims about get_results_from_events (SpecResults) *)

ExactlyOne(a, b, c) == (a /\ ~b /\ ~c) \/ (~a /\ b /\ ~c) \/ (~a /\ ~b /\ c)

\* the two rows of one finished event mirror each other
Mirrored(t) ==
    /\ Len(t) = 2 /\ t[1].local = "Home" /\ t[2].local = "Away"
    /\ t[1].event_id = t[2].event_id
    /\ t[1].score_for = t[2].score_against /\ t[1].score_against = t[2].score_for
    /\ ExactlyOne(t[1].win, t[1].draw, t[1].loose)
    /\ ExactlyOne(t[2].win, t[2].draw, t[2].loose)
    /\ t[1].win <=> t[2].loose
    /\ t[1].draw = t[2].draw

\* C28: every finished event emits exactly two rows, one 'Home' and one
\* 'Away', that mirror each other (scores swapped, exactly one of win, draw,
\* loose per row, home win iff away loose, same draw), and an event that is
\* not finished emits no row; the returned table holds just these rows.
C28_ResultsMirror ==
    /\ \A m \in 1..Len(dfs) :
          /\ events[emitted[m] + 1].status = "finished"
          /\ Mirrored(dfs[m])
          /\ dfs[m][1].event_id = emitted[m]
          /\ dfs[m][1].score_for = events[emitted[m] + 1].homeScore
          /\ dfs[m][2].score_for = events[emitted[m] + 1].awayScore
    /\ \A x \in 0..(i - 1) :
          Cardinality({m \in 1..Len(emitted) : emitted[m] = x}) = IF events[x + 1].status = "finished" THEN 1 ELSE 0
    /\ pc = "res_done" =>
          \A x \in 0..(Len(events) - 1) :
              Cardinality({a \in 1..Len(results_df) : results_df[a].event_id = x}) = IF events[x + 1].status = "finished" THEN 2 ELSE 0

C28_Witness ==
    /\ pc = "res_done" /\ Len(events) = 2 /\ events[1].status = "notstarted"
    /\ Len(results_df) = 2
    /\ results_df[1].local = "Home" /\ results_df[1].win /\ results_df[1].score_for = MaxScore
    /\ results_df[2].local = "Away" /\ results_df[2].loose /\ results_df[2].score_against = MaxScore

-----------------------------------------------------------------------------
(* Claims about get_players_from_teams (SpecPlayers) *)

\* the teams whose page shows href to the loop
TeamsShowing(href) ==
    {t \in 1..Len(teams) : \E q \in 1..Len(Links(teams[t])) : Links(teams[t])[q] = href}

\* C29: over the whole batch each distinct link yields at most one player
\* record: no two records share a link, and the record of a link that
\* several teams' pages show belongs to the first of these teams.
C29_OneRecordPerLink ==
    /\ \A a, b \in 1..Len(players_dic) :
           players_dic[a].link = players_dic[b].link => a = b
    /\ \A a \in 1..Len(players_dic) :
           LET shown == TeamsShowing(players_dic[a].link[2])
           IN  /\ players_dic[a].team \in shown
               /\ \A t \in shown : players_dic[a].team <= t

C29_Witness ==
    /\ pc = "pl_done" /\ Len(teams) = 2
    /\ teams[1].links = <<HrefP1, HrefP1>> /\ teams[2].links = <<HrefP2, HrefP1>>
    /\ Len(players_dic) = 2
    /\ players_dic[1].link[2] = HrefP1 /\ players_dic[1].team = 1
    /\ players_dic[2].link[2] = HrefP2 /\ players_dic[2].team = 2

-----------------------------------------------------------------------------
(* Claims about the round loop of get_events_from_league (SpecRounds) *)

\* the round of the page shown has been selected
RoundSelected == pc # "rd_select"

\* the first item is selected whatever its text
FirstItemSelected ==
    RoundSelected =>
        /\ \A q \in 1..Len(Page.items) : RoundCondition(Page.items[q])
        /\ selected_round = IF Page.items = <<>> THEN NoRound ELSE Page.items[1]

\* C24, as stated: the round condition is true for every text, so the first
\* item of a non-empty container is selected whatever its text, and the
\* loop is left only when no item exists, when the parsed round number is
\* <= 1, or when navigating to the previous round raises.
C24_RoundLoopExits ==
    /\ FirstItemSelected
    /\ stop # "none" =>
          \/ stop = "not_found" /\ Page.items = <<>>
          \/ stop = "round" /\ round_number <= 1
          \/ stop = "navigate"

\* the last word of the first item's text is not an integer
FirstItemNotNumbered ==
    /\ Page.items # <<>> /\ Page.items[1] # <<>>
    /\ int_raises(CurrentRoundNumber(Page.items[1]))

\* C24, amended: the first item is selected whatever its text, and the loop
\* is left only when no item exists or the first item's text is empty, when
\* the parsed round number is <= 1, when navigating to the previous round
\* raises, or when an exception of the pass leaves the function (the last
\* word of the first item's text is not an integer, or a lookup or a
\* request of the pass raises).
C24_RoundLoopExitsAmended ==
    /\ FirstItemSelected
    /\ stop # "none" =>
          \/ stop = "not_found" /\ (Page.items = <<>> \/ Page.items[1] = <<>>)
          \/ stop = "round" /\ round_number <= 1
          \/ stop = "navigate" /\ i + 1 = Len(driver)
          \/ stop = "exception" /\ (FirstItemNotNumbered \/ FirstFailing(Page.cells) # 0)

C24_Witness ==
    /\ pc = "rd_raised" /\ stop = "exception" /\ i = 1
    /\ driver[1].items = <<TextWeek3, TextRound2>>
    /\ Page.items = <<TextFinal, TextRound2>> /\ selected_round = TextFinal
    /\ round_number = 3 /\ Len(events_dic) = 1

=============================================================================
